---- MODULE Spec2Model ----
(***************************************************************************)
(* The offline outbox and its reconciliation engine, syncNow, of           *)
(* src/src/offline/sync.ts.                                                *)
(*                                                                         *)
(* The three durable stores (outbox, identity map, local task cache) live  *)
(* in ./db, which is imported by sync.ts; their primitives are modelled    *)
(* from the contract of the specification (sections 4.1 to 4.3). syncNow   *)
(* is modelled statement by statement: one step per record and per side of *)
(* a remote call, since every remote call is an await at which the rest of *)
(* the program runs.                                                       *)
(***************************************************************************)
EXTENDS Integers, Sequences, FiniteSets, TLC

(***************************************************************************)
(* Bounds of the model.                                                    *)
(***************************************************************************)
\* most records the outbox holds when the first pass starts
MaxOps == 3
\* most invocations of syncNow in one behaviour
MaxPasses == 2

(***************************************************************************)
(* JavaScript values. Every value of the model is a string; the value      *)
(* undefined is a string no identifier or field of the program can equal.  *)
(***************************************************************************)
undefined == "<undefined>"

\* !x for a string or undefined
Falsy(x) == x = undefined \/ x = ""

\* a ?? b
Coalesce(a, b) == IF a = undefined THEN b ELSE a

\* String(x): String(undefined) is the seven letters "undefined"
JsString(x) == IF x = undefined THEN "undefined" ELSE x

ClientRefs == {"tmp-1", "tmp-2"}
Statuses == {"Pendiente", "En Progreso", "Completada"}
\* normalizeTask's placeholder title (written without its accent)
NoTitle == "(sin titulo)"

(***************************************************************************)
(* Tasks. A task-shaped object is a record of the fields syncNow reads or  *)
(* copies; a field the object lacks is undefined. createdAt and the        *)
(* time-tracking fields are carried along unread and are left out.         *)
(***************************************************************************)
Obj(_id, id, title, description, status, clienteId) ==
    [_id |-> _id, id |-> id, title |-> title, description |-> description,
     status |-> status, clienteId |-> clienteId]

\* an object with no field at all (also stands for a missing object: x?.f)
EmptyObj == Obj(undefined, undefined, undefined, undefined, undefined, undefined)

\* a faulty normalizeTask: the status of x is not looked at
normalizeTaskDropsStatus(x) ==
    [_id |-> JsString(Coalesce(x._id, x.id)),
     title |-> JsString(Coalesce(x.title, NoTitle)),
     description |-> Coalesce(x.description, ""),
     status |-> "Pendiente",
     clienteId |-> x.clienteId]

normalizeTask(x) ==
    [_id |-> JsString(Coalesce(x._id, x.id)),
     title |-> JsString(Coalesce(x.title, NoTitle)),
     description |-> Coalesce(x.description, ""),
     status |-> IF x.status \in Statuses THEN x.status ELSE "Pendiente",
     clienteId |-> x.clienteId]

(***************************************************************************)
(* The stores of ./db.                                                     *)
(*   outbox  : set of pending operations, keyed by _id                     *)
(*   mapping : function clienteId -> serverId, on the keys that were set   *)
(*   cache   : set of tasks, at most one per _id                           *)
(***************************************************************************)
RECURSIVE getOutbox(_)
\* every stored record, in the order of the store's key
getOutbox(ob) ==
    IF ob = {} THEN <<>>
    ELSE LET m == CHOOSE r \in ob : \A s \in ob : r._id <= s._id
         IN <<m>> \o getOutbox(ob \ {m})

removePendingOp(ob, id) == {r \in ob : r._id # id}

setMapping(mp, c, s) == [k \in DOMAIN mp \cup {c} |-> IF k = c THEN s ELSE mp[k]]

getMapping(mp, c) == IF c \in DOMAIN mp THEN mp[c] ELSE undefined

putTaskLocal(ch, t) == {x \in ch : x._id # t._id} \cup {t}

removeTaskLocal(ch, id) == {x \in ch : x._id # id}

(***************************************************************************)
(* Pending operations and remote responses.                                *)
(***************************************************************************)
Task(_id, title, description, status, clienteId) ==
    [_id |-> _id, title |-> title, description |-> description,
     status |-> status, clienteId |-> clienteId]

\* the data of a record queued without data (a delete)
NoData == Task(undefined, undefined, undefined, undefined, undefined)

PendingOp(_id, op, clienteId, serverId, data, ts) ==
    [_id |-> _id, op |-> op, clienteId |-> clienteId, serverId |-> serverId,
     data |-> data, ts |-> ts]

\* res.data of a resolved call: its own fields (top) and its task field
ResData(top, task) == [top |-> top, task |-> task, hasTask |-> task # EmptyObj]

\* res.data?.task ?? res.data
resTask(data) == IF data.hasTask THEN data.task ELSE data.top

\* the fate of a remote call: awaited, resolved with res.data, or rejected
Pending == [state |-> "pending", data |-> ResData(EmptyObj, EmptyObj)]
Resolved(data) == [state |-> "resolved", data |-> data]
Rejected == [state |-> "rejected", data |-> ResData(EmptyObj, EmptyObj)]
\* res.data of a call whose response carries nothing the program reads
NoContent == ResData(EmptyObj, EmptyObj)

\* The answers of POST /tasks to the body of op that the model draws from:
\* a well-formed answer with _id srv-9; one nested under task that names
\* its id "id", srv-8; one that carries only an _id and a status the client
\* does not know; one with no id; one echoing the client id; one with an
\* empty id.
CreateAnswers(op) ==
    LET d == op.data
    IN  {ResData(Obj("srv-9", undefined, d.title, d.description, d.status, undefined),
                 EmptyObj),
         ResData(EmptyObj,
                 Obj(undefined, "srv-8", d.title, d.description, d.status, undefined)),
         ResData(Obj("srv-9", undefined, undefined, undefined, "done", undefined),
                 EmptyObj),
         ResData(Obj(undefined, undefined, d.title, d.description, d.status,
                     undefined), EmptyObj),
         ResData(Obj(op.clienteId, undefined, d.title, d.description, d.status,
                     op.clienteId), EmptyObj),
         ResData(Obj("", undefined, d.title, d.description, d.status, undefined),
                 EmptyObj)}

(***************************************************************************)
(* syncNow: the order of the records of a pass.                            *)
(***************************************************************************)
\* a faulty sort: r is put before the records of its own ts
insertByTsBeforeTies(t, r) ==
    LET k == Cardinality({j \in 1..Len(t) : t[j].ts < r.ts})
    IN  SubSeq(t, 1, k) \o <<r>> \o SubSeq(t, k + 1, Len(t))

\* t, sorted by ts, with r put behind every record whose ts is not larger
insertByTs(t, r) ==
    LET k == Cardinality({j \in 1..Len(t) : t[j].ts <= r.ts})
    IN  SubSeq(t, 1, k) \o <<r>> \o SubSeq(t, k + 1, Len(t))

RECURSIVE sortByTs(_)
\* s.sort((a, b) => a.ts - b.ts): ascending ts, stable
sortByTs(s) ==
    IF s = <<>> THEN <<>>
    ELSE insertByTs(sortByTs(SubSeq(s, 1, Len(s) - 1)), s[Len(s)])

\* ops.filter((op) => op.op === kind)
filterOp(ops, kind) == SelectSeq(ops, LAMBDA o : o.op = kind)

\* a faulty order of the loops: the update loop first
PhaseOrderUpdatesFirst == <<"update", "create", "delete">>

\* the three loops of syncNow, in the order of the source
PhaseOrder == <<"create", "update", "delete">>

PhaseIdx(ph) == CHOOSE k \in 1..3 : PhaseOrder[k] = ph

\* the loop position that follows record i of phase ph: the next record of
\* the phase, else the first record of the next phase that has one, else the
\* end of the function
nextPos(ops, ph, i) ==
    IF i + 1 <= Len(filterOp(ops, ph)) THEN [pc |-> ph, i |-> i + 1]
    ELSE LET later == {k \in (PhaseIdx(ph) + 1)..3 :
                          Len(filterOp(ops, PhaseOrder[k])) > 0}
         IN  IF later = {} THEN [pc |-> "end", i |-> 0]
             ELSE [pc |-> PhaseOrder[CHOOSE k \in later : \A m \in later : k <= m],
                   i |-> 1]

\* the loop position syncNow starts at: the first record of the first phase
\* that has one
firstPos(ops) ==
    LET some == {k \in 1..3 : Len(filterOp(ops, PhaseOrder[k])) > 0}
    IN  IF some = {} THEN [pc |-> "end", i |-> 0]
        ELSE [pc |-> PhaseOrder[CHOOSE k \in some : \A m \in some : k <= m],
              i |-> 1]

(***************************************************************************)
(* State.                                                                  *)
(*   online  : navigator.onLine                                            *)
(*   outbox, mapping, cache : the stores of ./db                           *)
(*   pass    : per invocation of syncNow, where it stands:                 *)
(*       pc       "idle" (not running) or the loop it is in                *)
(*       ops      the sorted snapshot of the outbox (const ops)            *)
(*       i        index of the current record within its loop              *)
(*       inflight TRUE while the current record's remote call is awaited   *)
(*       target   const serverId of the update and delete loops            *)
(*     and, as a record of what the invocation did:                        *)
(*       read     getOutbox was called                                     *)
(*       calls    the remote calls issued, in order, each with its fate    *)
(*       outcome  how the invocation ended                                 *)
(*   events  : number of sync-complete events dispatched                   *)
(*   passNo  : number of invocations of syncNow so far                     *)
(***************************************************************************)
VARIABLES online, outbox, mapping, cache, pass, events, passNo

vars == <<online, outbox, mapping, cache, pass, events, passNo>>

Passes == {"p1", "p2"}

\* a remote call: the method, the id in its path, the record it is for
Call(method, id, op) ==
    [method |-> method, id |-> id, rec |-> op._id, res |-> Pending]

\* the calls of a pass, the awaited one settled
settled(ps, res) == [ps EXCEPT !.calls[Len(ps.calls)].res = res]

NotStarted ==
    [pc |-> "idle", ops |-> <<>>, i |-> 0, inflight |-> FALSE,
     target |-> undefined, read |-> FALSE, calls |-> <<>>,
     outcome |-> "none"]

\* the record a running pass stands at
curOp(ps) == filterOp(ps.ops, ps.pc)[ps.i]

\* the pass goes on behind its current record; behind the last record of the
\* last loop it reaches the end of syncNow
proceed(ps) ==
    LET n == nextPos(ps.ops, ps.pc, ps.i)
    IN  IF n.pc = "end"
        THEN [ps EXCEPT !.pc = "idle", !.inflight = FALSE, !.outcome = "completed"]
        ELSE [ps EXCEPT !.pc = n.pc, !.i = n.i, !.inflight = FALSE]

\* a faulty catch block: continue where the source returns
abortSkipsRecord(ps) ==
    LET n == nextPos(ps.ops, ps.pc, ps.i)
    IN  IF n.pc = "end"
        THEN [ps EXCEPT !.pc = "idle", !.inflight = FALSE, !.outcome = "completed"]
        ELSE [ps EXCEPT !.pc = n.pc, !.i = n.i, !.inflight = FALSE]

\* the return of a catch block
abort(ps) == [ps EXCEPT !.pc = "idle", !.inflight = FALSE, !.outcome = "aborted"]

\* a faulty end of syncNow: the event is dispatched twice
dispatchedTwice(ps) == IF ps.outcome = "completed" THEN 2 ELSE 0

\* window.dispatchEvent(new Event("sync-complete")) at the end of syncNow
dispatched(ps) == IF ps.outcome = "completed" THEN 1 ELSE 0

\* a faulty connectivity test: never offline
alwaysOnLine == TRUE

\* navigator.onLine
navigatorOnLine == online

\* a faulty emptiness test: the early return is never taken
neverNoPending(ops) == FALSE

\* !ops.length
noPending(ops) == Len(ops) = 0

(***************************************************************************)
(* syncNow, from its call to its first loop.                               *)
(***************************************************************************)
\* a guarded syncNow: it does nothing while another invocation is under way
enterUnlessRunning(p) ==
    /\ \A q \in Passes : pass[q].pc = "idle"
    /\ LET ops == sortByTs(getOutbox(outbox))
           first == firstPos(ops)
           ps == IF ~navigatorOnLine
                 THEN [NotStarted EXCEPT !.outcome = "offline"]
                 ELSE IF noPending(ops)
                 THEN [NotStarted EXCEPT !.read = TRUE, !.outcome = "empty"]
                 ELSE IF first.pc = "end"
                 THEN [NotStarted EXCEPT !.read = TRUE, !.ops = ops,
                                         !.outcome = "completed"]
                 ELSE [NotStarted EXCEPT !.read = TRUE, !.ops = ops,
                                         !.pc = first.pc, !.i = first.i,
                                         !.outcome = "running"]
       IN  /\ pass' = [pass EXCEPT ![p] = ps]
           /\ events' = events + dispatched(ps)
    /\ UNCHANGED <<online, outbox, mapping, cache>>

\* the body of syncNow down to its first loop, run by the idle pass p
enter(p) ==
    /\ pass[p].pc = "idle"
    /\ LET ops == sortByTs(getOutbox(outbox))
           first == firstPos(ops)
           ps == IF ~navigatorOnLine
                 THEN [NotStarted EXCEPT !.outcome = "offline"]
                 ELSE IF noPending(ops)
                 THEN [NotStarted EXCEPT !.read = TRUE, !.outcome = "empty"]
                 ELSE IF first.pc = "end"
                 THEN [NotStarted EXCEPT !.read = TRUE, !.ops = ops,
                                         !.outcome = "completed"]
                 ELSE [NotStarted EXCEPT !.read = TRUE, !.ops = ops,
                                         !.pc = first.pc, !.i = first.i,
                                         !.outcome = "running"]
       IN  /\ pass' = [pass EXCEPT ![p] = ps]
           /\ events' = events + dispatched(ps)
    /\ UNCHANGED <<online, outbox, mapping, cache>>

\* syncNow is called, for the passNo + 1st time
StartPass(p) ==
    /\ passNo < MaxPasses
    /\ passNo' = passNo + 1
    /\ enter(p)

(***************************************************************************)
(* The create loop.                                                        *)
(***************************************************************************)
\* api.post("/tasks", ...) is called and awaited
IssuePost(p) ==
    /\ pass[p].pc = "create"
    /\ ~pass[p].inflight
    /\ pass' = [pass EXCEPT ![p].inflight = TRUE,
                            ![p].calls = Append(@, Call("POST", "", curOp(pass[p])))]
    /\ UNCHANGED <<online, outbox, mapping, cache, events, passNo>>

\* a faulty test: an id equal to the clienteId is let through
validServerIdNoEchoTest(serverId, op) == ~Falsy(serverId)

\* the test that guards the throw of the create loop
validServerId(serverId, op) == ~(Falsy(serverId) \/ serverId = op.clienteId)

\* a faulty create loop: the identity mapping is not recorded
PostResolvesNoMapping(p) ==
    /\ pass[p].pc = "create"
    /\ pass[p].inflight
    /\ \E data \in CreateAnswers(curOp(pass[p])) :
       LET op == curOp(pass[p])
           serverTask == normalizeTask(resTask(data))
           serverId == serverTask._id
           got == settled(pass[p], Resolved(data))
       IN  IF ~validServerId(serverId, op)
           THEN /\ pass' = [pass EXCEPT ![p] = abort(got)]
                /\ UNCHANGED <<outbox, mapping, cache, events>>
           ELSE /\ mapping' = mapping
                /\ cache' = putTaskLocal(removeTaskLocal(cache, op.clienteId),
                                         serverTask)
                /\ outbox' = removePendingOp(outbox, op._id)
                /\ pass' = [pass EXCEPT ![p] = proceed(got)]
                /\ events' = events + dispatched(proceed(got))
    /\ UNCHANGED <<online, passNo>>

\* a faulty create loop: it reads the outbox again behind every create
PostResolvesRereads(p) ==
    /\ pass[p].pc = "create"
    /\ pass[p].inflight
    /\ \E data \in CreateAnswers(curOp(pass[p])) :
       LET op == curOp(pass[p])
           serverTask == normalizeTask(resTask(data))
           serverId == serverTask._id
           got == settled(pass[p], Resolved(data))
           ops == sortByTs(getOutbox(removePendingOp(outbox, op._id)))
           first == firstPos(ops)
           on == IF first.pc = "end"
                 THEN [got EXCEPT !.pc = "idle", !.inflight = FALSE,
                                  !.outcome = "completed", !.ops = ops]
                 ELSE [got EXCEPT !.pc = first.pc, !.i = first.i,
                                  !.inflight = FALSE, !.ops = ops]
       IN  IF ~validServerId(serverId, op)
           THEN /\ pass' = [pass EXCEPT ![p] = abort(got)]
                /\ UNCHANGED <<outbox, mapping, cache, events>>
           ELSE /\ mapping' = setMapping(mapping, op.clienteId, serverId)
                /\ cache' = putTaskLocal(removeTaskLocal(cache, op.clienteId),
                                         serverTask)
                /\ outbox' = removePendingOp(outbox, op._id)
                /\ pass' = [pass EXCEPT ![p] = on]
                /\ events' = events + dispatched(on)
    /\ UNCHANGED <<online, passNo>>

\* the call resolves, with some res.data
PostResolves(p) ==
    /\ pass[p].pc = "create"
    /\ pass[p].inflight
    /\ \E data \in CreateAnswers(curOp(pass[p])) :
       LET op == curOp(pass[p])
           serverTask == normalizeTask(resTask(data))
           serverId == serverTask._id
           got == settled(pass[p], Resolved(data))
       IN  IF ~validServerId(serverId, op)
           THEN /\ pass' = [pass EXCEPT ![p] = abort(got)]
                /\ UNCHANGED <<outbox, mapping, cache, events>>
           ELSE /\ mapping' = setMapping(mapping, op.clienteId, serverId)
                /\ cache' = putTaskLocal(removeTaskLocal(cache, op.clienteId),
                                         serverTask)
                /\ outbox' = removePendingOp(outbox, op._id)
                /\ pass' = [pass EXCEPT ![p] = proceed(got)]
                /\ events' = events + dispatched(proceed(got))
    /\ UNCHANGED <<online, passNo>>

\* a faulty catch block: the loop tries the record again
PostRejectsRetries(p) ==
    /\ pass[p].pc = "create"
    /\ pass[p].inflight
    /\ pass' = [pass EXCEPT ![p] = [settled(pass[p], Rejected) EXCEPT !.inflight = FALSE]]
    /\ UNCHANGED <<online, outbox, mapping, cache, events, passNo>>

\* the call rejects
PostRejects(p) ==
    /\ pass[p].pc = "create"
    /\ pass[p].inflight
    /\ pass' = [pass EXCEPT ![p] = abort(settled(pass[p], Rejected))]
    /\ UNCHANGED <<online, outbox, mapping, cache, events, passNo>>

(***************************************************************************)
(* The update loop.                                                        *)
(***************************************************************************)
\* a faulty target: the id of the queued task where the mapped id is due
updateTargetClientKey(op, mp) ==
    IF Falsy(getMapping(mp, op.clienteId)) THEN undefined ELSE op.data._id

\* const serverId = await getMapping(op.clienteId)
updateTarget(op, mp) == getMapping(mp, op.clienteId)

\* a faulty discard: the loop continues and the record stays queued
UpdateOrphanKeepsRecord(p) ==
    /\ pass[p].pc = "update"
    /\ ~pass[p].inflight
    /\ Falsy(updateTarget(curOp(pass[p]), mapping))
    /\ pass' = [pass EXCEPT ![p] = proceed(pass[p])]
    /\ events' = events + dispatched(proceed(pass[p]))
    /\ UNCHANGED <<online, outbox, mapping, cache, passNo>>

\* no mapping: the record is removed and the loop continues
UpdateOrphan(p) ==
    /\ pass[p].pc = "update"
    /\ ~pass[p].inflight
    /\ Falsy(updateTarget(curOp(pass[p]), mapping))
    /\ outbox' = removePendingOp(outbox, curOp(pass[p])._id)
    /\ pass' = [pass EXCEPT ![p] = proceed(pass[p])]
    /\ events' = events + dispatched(proceed(pass[p]))
    /\ UNCHANGED <<online, mapping, cache, passNo>>

\* a faulty call: api.put is called and not awaited, the loop goes on
IssuePutNoAwait(p) ==
    /\ pass[p].pc = "update"
    /\ ~pass[p].inflight
    /\ LET op == curOp(pass[p])
           serverId == updateTarget(op, mapping)
           called == [pass[p] EXCEPT !.target = serverId,
                                     !.calls = Append(@, Call("PUT", serverId, op))]
       IN  /\ ~Falsy(serverId)
           /\ pass' = [pass EXCEPT ![p] = proceed(called)]
           /\ events' = events + dispatched(proceed(called))
    /\ UNCHANGED <<online, outbox, mapping, cache, passNo>>

\* api.put(`/tasks/${serverId}`, ...) is called and awaited
IssuePut(p) ==
    /\ pass[p].pc = "update"
    /\ ~pass[p].inflight
    /\ LET op == curOp(pass[p])
           serverId == updateTarget(op, mapping)
       IN  /\ ~Falsy(serverId)
           /\ pass' = [pass EXCEPT ![p].inflight = TRUE,
                                   ![p].target = serverId,
                                   ![p].calls = Append(@, Call("PUT", serverId, op))]
    /\ UNCHANGED <<online, outbox, mapping, cache, events, passNo>>

\* a faulty update: the task is cached under the id it was queued with
PutResolvesKeepsClientKey(p) ==
    /\ pass[p].pc = "update"
    /\ pass[p].inflight
    /\ LET op == curOp(pass[p])
           got == settled(pass[p], Resolved(NoContent))
       IN  /\ cache' = putTaskLocal(cache, op.data)
           /\ outbox' = removePendingOp(outbox, op._id)
           /\ pass' = [pass EXCEPT ![p] = proceed(got)]
           /\ events' = events + dispatched(proceed(got))
    /\ UNCHANGED <<online, mapping, passNo>>

\* a faulty update loop: the record is left in the outbox
PutResolvesKeepsRecord(p) ==
    /\ pass[p].pc = "update"
    /\ pass[p].inflight
    /\ LET op == curOp(pass[p])
           got == settled(pass[p], Resolved(NoContent))
       IN  /\ cache' = putTaskLocal(cache, [op.data EXCEPT !._id = pass[p].target])
           /\ outbox' = outbox
           /\ pass' = [pass EXCEPT ![p] = proceed(got)]
           /\ events' = events + dispatched(proceed(got))
    /\ UNCHANGED <<online, mapping, passNo>>

\* the call resolves (its response is not read)
PutResolves(p) ==
    /\ pass[p].pc = "update"
    /\ pass[p].inflight
    /\ LET op == curOp(pass[p])
           got == settled(pass[p], Resolved(NoContent))
       IN  /\ cache' = putTaskLocal(cache, [op.data EXCEPT !._id = pass[p].target])
           /\ outbox' = removePendingOp(outbox, op._id)
           /\ pass' = [pass EXCEPT ![p] = proceed(got)]
           /\ events' = events + dispatched(proceed(got))
    /\ UNCHANGED <<online, mapping, passNo>>

\* a faulty catch block: the record whose call failed is dropped
PutRejectsDropsRecord(p) ==
    /\ pass[p].pc = "update"
    /\ pass[p].inflight
    /\ outbox' = removePendingOp(outbox, curOp(pass[p])._id)
    /\ pass' = [pass EXCEPT ![p] = abort(settled(pass[p], Rejected))]
    /\ UNCHANGED <<online, mapping, cache, events, passNo>>

\* the call rejects
PutRejects(p) ==
    /\ pass[p].pc = "update"
    /\ pass[p].inflight
    /\ pass' = [pass EXCEPT ![p] = abort(settled(pass[p], Rejected))]
    /\ UNCHANGED <<online, outbox, mapping, cache, events, passNo>>

(***************************************************************************)
(* The delete loop.                                                        *)
(***************************************************************************)
\* a faulty resolution: the identity map is asked first
deleteTargetMapFirst(op, mp) ==
    IF ~Falsy(op.clienteId) /\ ~Falsy(getMapping(mp, op.clienteId))
    THEN getMapping(mp, op.clienteId)
    ELSE op.serverId

\* let serverId = op.serverId;
\* if (!serverId && op.clienteId) serverId = await getMapping(op.clienteId)
deleteTarget(op, mp) ==
    IF Falsy(op.serverId) /\ ~Falsy(op.clienteId)
    THEN getMapping(mp, op.clienteId)
    ELSE op.serverId

\* no server id: the record is removed and the loop continues
DeleteOrphan(p) ==
    /\ pass[p].pc = "delete"
    /\ ~pass[p].inflight
    /\ Falsy(deleteTarget(curOp(pass[p]), mapping))
    /\ outbox' = removePendingOp(outbox, curOp(pass[p])._id)
    /\ pass' = [pass EXCEPT ![p] = proceed(pass[p])]
    /\ events' = events + dispatched(proceed(pass[p]))
    /\ UNCHANGED <<online, mapping, cache, passNo>>

\* a faulty loop: connectivity is looked at again before the call, and the
\* pass returns when it is gone
IssueDeleteIfOnLine(p) ==
    /\ pass[p].pc = "delete"
    /\ ~pass[p].inflight
    /\ LET op == curOp(pass[p])
           serverId == deleteTarget(op, mapping)
       IN  /\ ~Falsy(serverId)
           /\ pass' = IF navigatorOnLine
                      THEN [pass EXCEPT ![p].inflight = TRUE,
                                        ![p].target = serverId,
                                        ![p].calls = Append(@, Call("DELETE", serverId, op))]
                      ELSE [pass EXCEPT ![p] = abort(pass[p])]
    /\ UNCHANGED <<online, outbox, mapping, cache, events, passNo>>

\* api.delete(`/tasks/${serverId}`) is called and awaited
IssueDelete(p) ==
    /\ pass[p].pc = "delete"
    /\ ~pass[p].inflight
    /\ LET op == curOp(pass[p])
           serverId == deleteTarget(op, mapping)
       IN  /\ ~Falsy(serverId)
           /\ pass' = [pass EXCEPT ![p].inflight = TRUE,
                                   ![p].target = serverId,
                                   ![p].calls = Append(@, Call("DELETE", serverId, op))]
    /\ UNCHANGED <<online, outbox, mapping, cache, events, passNo>>

\* a faulty delete: the whole cache goes with the deleted task
DeleteResolvesClearsCache(p) ==
    /\ pass[p].pc = "delete"
    /\ pass[p].inflight
    /\ LET op == curOp(pass[p])
           got == settled(pass[p], Resolved(NoContent))
       IN  /\ cache' = {}
           /\ outbox' = removePendingOp(outbox, op._id)
           /\ pass' = [pass EXCEPT ![p] = proceed(got)]
           /\ events' = events + dispatched(proceed(got))
    /\ UNCHANGED <<online, mapping, passNo>>

\* a faulty delete: the mapping of the deleted task is dropped with it
DeleteResolvesForgetsMapping(p) ==
    /\ pass[p].pc = "delete"
    /\ pass[p].inflight
    /\ LET op == curOp(pass[p])
           got == settled(pass[p], Resolved(NoContent))
       IN  /\ cache' = removeTaskLocal(cache, pass[p].target)
           /\ mapping' = [c \in DOMAIN mapping \ {op.clienteId} |-> mapping[c]]
           /\ outbox' = removePendingOp(outbox, op._id)
           /\ pass' = [pass EXCEPT ![p] = proceed(got)]
           /\ events' = events + dispatched(proceed(got))
    /\ UNCHANGED <<online, passNo>>

\* a faulty delete loop: the task is left in the cache
DeleteResolvesKeepsTask(p) ==
    /\ pass[p].pc = "delete"
    /\ pass[p].inflight
    /\ LET op == curOp(pass[p])
           got == settled(pass[p], Resolved(NoContent))
       IN  /\ cache' = cache
           /\ outbox' = removePendingOp(outbox, op._id)
           /\ pass' = [pass EXCEPT ![p] = proceed(got)]
           /\ events' = events + dispatched(proceed(got))
    /\ UNCHANGED <<online, mapping, passNo>>

\* the call resolves
DeleteResolves(p) ==
    /\ pass[p].pc = "delete"
    /\ pass[p].inflight
    /\ LET op == curOp(pass[p])
           got == settled(pass[p], Resolved(NoContent))
       IN  /\ cache' = removeTaskLocal(cache, pass[p].target)
           /\ outbox' = removePendingOp(outbox, op._id)
           /\ pass' = [pass EXCEPT ![p] = proceed(got)]
           /\ events' = events + dispatched(proceed(got))
    /\ UNCHANGED <<online, mapping, passNo>>

\* a faulty catch block: the record whose call failed is not kept
DeleteRejectsDropsRecord(p) ==
    /\ pass[p].pc = "delete"
    /\ pass[p].inflight
    /\ outbox' = removePendingOp(outbox, curOp(pass[p])._id)
    /\ pass' = [pass EXCEPT ![p] = abort(settled(pass[p], Rejected))]
    /\ UNCHANGED <<online, mapping, cache, events, passNo>>

\* the call rejects
DeleteRejects(p) ==
    /\ pass[p].pc = "delete"
    /\ pass[p].inflight
    /\ pass' = [pass EXCEPT ![p] = abort(settled(pass[p], Rejected))]
    /\ UNCHANGED <<online, outbox, mapping, cache, events, passNo>>

(***************************************************************************)
(* The environment: connectivity comes and goes.                           *)
(***************************************************************************)
Connectivity ==
    /\ online' = ~online
    /\ UNCHANGED <<outbox, mapping, cache, pass, events, passNo>>

(***************************************************************************)
(* Initial states: what earlier sessions left in the stores. The outbox    *)
(* holds up to MaxOps records. As the callers of queue in the source leave *)
(* them: a create carries the optimistic task, keyed by its fresh          *)
(* clienteId, which is in the cache and has no mapping yet; an update      *)
(* carries the edited task; a delete carries no data, and its task is no   *)
(* longer in the cache. A record's key (a random UUID in the program) is   *)
(* in no relation to its ts: the model gives each record a key that        *)
(* scatters the records over the store's order.                            *)
(***************************************************************************)
OpShapes ==
    << [op |-> "create", clienteId |-> "tmp-1", serverId |-> undefined,
        data |-> Task("tmp-1", "A", "", "Pendiente", "tmp-1")],
       [op |-> "create", clienteId |-> "tmp-2", serverId |-> undefined,
        data |-> Task("tmp-2", "B", "d", "En Progreso", "tmp-2")],
       [op |-> "update", clienteId |-> "tmp-1", serverId |-> undefined,
        data |-> Task("tmp-1", "A2", "", "Completada", "tmp-1")],
       [op |-> "update", clienteId |-> "tmp-2", serverId |-> undefined,
        data |-> Task("tmp-2", "B2", "d", "Pendiente", "tmp-2")],
       [op |-> "delete", clienteId |-> "tmp-1", serverId |-> undefined,
        data |-> NoData],
       [op |-> "delete", clienteId |-> "tmp-2", serverId |-> undefined,
        data |-> NoData],
       [op |-> "delete", clienteId |-> "", serverId |-> "srv-8",
        data |-> NoData] >>

Stamps == {0, 1, 2}

\* the key of the record of shape k queued at ts: one key per record
KeyOf(k, ts) == ((5 * k + 7 * ts) % (Len(OpShapes) * Cardinality(Stamps))) + 1

PoolOp(k, ts) ==
    PendingOp(KeyOf(k, ts), OpShapes[k].op, OpShapes[k].clienteId,
              OpShapes[k].serverId, OpShapes[k].data, ts)

\* the ts a record of a kind is queued at: every two kinds occur in both
\* orders of ts and with equal ts, and so do two records of one kind
StampsOf(kind) == IF kind = "create" THEN {1, 2} ELSE {0, 2}

OpPool ==
    {r \in {PoolOp(k, ts) : k \in 1..Len(OpShapes), ts \in Stamps} :
        r.ts \in StampsOf(r.op)}

\* the clienteIds whose create is queued
Creating(ob) == {r.clienteId : r \in {x \in ob : x.op = "create"}}
\* the clienteIds whose delete is queued
Deleting(ob) == {r.clienteId : r \in {x \in ob : x.op = "delete"}}

\* addTask queues one create per clienteId
WellFormedOutbox(ob) ==
    \A r, s \in ob : r.op = "create" /\ s.op = "create" /\ r.clienteId = s.clienteId
                     => r = s

InitOutboxes ==
    {ob \in SUBSET OpPool : Cardinality(ob) <= MaxOps /\ WellFormedOutbox(ob)}

\* a clienteId created in an earlier session is mapped
InitMappings(ob) ==
    {[c \in D |-> "srv-8"] : D \in SUBSET ({"tmp-2"} \ Creating(ob))}

InitCache(ob, mp) ==
    {r.data : r \in {x \in ob : x.op = "create" /\ x.clienteId \notin Deleting(ob)}}
    \cup {Task(mp[c], "B", "d", "En Progreso", undefined)
          : c \in {d \in DOMAIN mp : d \notin Deleting(ob)}}

Init ==
    /\ online \in BOOLEAN
    /\ outbox \in InitOutboxes
    /\ mapping \in InitMappings(outbox)
    /\ cache = InitCache(outbox, mapping)
    /\ pass = [p \in Passes |-> NotStarted]
    /\ events = 0
    /\ passNo = 0

(***************************************************************************)
(* Passes run one at a time (the caller serializes them), by one caller.   *)
(***************************************************************************)
Next ==
    \/ StartPass("p1")
    \/ IssuePost("p1")
    \/ PostResolves("p1")
    \/ PostRejects("p1")
    \/ UpdateOrphan("p1")
    \/ IssuePut("p1")
    \/ PutResolves("p1")
    \/ PutRejects("p1")
    \/ DeleteOrphan("p1")
    \/ IssueDelete("p1")
    \/ DeleteResolves("p1")
    \/ DeleteRejects("p1")
    \/ Connectivity

Spec == Init /\ [][Next]_vars

(***************************************************************************)
(* Vocabulary of the properties.                                           *)
(***************************************************************************)
\* the pending operations of a snapshot, by kind, in snapshot order
CreatesOf(ops) == SelectSeq(ops, LAMBDA o : o.op = "create")
UpdatesOf(ops) == SelectSeq(ops, LAMBDA o : o.op = "update")
DeletesOf(ops) == SelectSeq(ops, LAMBDA o : o.op = "delete")

\* the order in which a pass is to take the records of its snapshot
Schedule(ops) == CreatesOf(ops) \o UpdatesOf(ops) \o DeletesOf(ops)

\* POST before PUT before DELETE
Rank(method) == CASE method = "POST" -> 1 [] method = "PUT" -> 2 [] OTHER -> 3

\* the last remote call a pass issued
LastCall(ps) == ps.calls[Len(ps.calls)]

\* the pass is back from a remote call that rejected
RejectedAt(ps, method) ==
    /\ Len(ps.calls) > 0
    /\ LastCall(ps).method = method
    /\ LastCall(ps).res = Rejected

\* the server id a response carries, undefined when it carries none
AnswerId(data) == Coalesce(resTask(data)._id, resTask(data).id)

\* in this step pass p comes back from the remote call it awaited
Back(p) == pass[p].inflight /\ ~pass'[p].inflight

\* in this step the POST of pass p resolves
PostBack(p) ==
    /\ pass[p].pc = "create"
    /\ Back(p)
    /\ LastCall(pass'[p]).res.state = "resolved"

\* behind record op of its snapshot, pass qs stands at the next record of the
\* schedule, or has completed if there is none
ContinuesBehind(op, qs) ==
    LET sch == Schedule(qs.ops)
        k == CHOOSE j \in 1..Len(sch) : sch[j] = op
    IN  /\ qs.outcome # "aborted"
        /\ ~qs.inflight
        /\ IF k = Len(sch)
           THEN qs.pc = "idle" /\ qs.outcome = "completed"
           ELSE qs.pc # "idle" /\ curOp(qs) = sch[k + 1]

(***************************************************************************)
(* C1. Within one pass every POST is issued before any PUT and every PUT   *)
(* before any DELETE, whatever the ts of the records across kinds.         *)
(***************************************************************************)
C1_CallsInPhaseOrder ==
    \A p \in Passes :
        \A j, k \in 1..Len(pass[p].calls) :
            j < k => Rank(pass[p].calls[j].method) <= Rank(pass[p].calls[k].method)

\* a pass issued a POST, a PUT and a DELETE although its snapshot, sorted by
\* ts, starts with a delete and ends with a create
C1_Witness ==
    \E p \in Passes :
        /\ Len(pass[p].calls) = 3
        /\ pass[p].calls[1].method = "POST"
        /\ pass[p].calls[2].method = "PUT"
        /\ pass[p].calls[3].method = "DELETE"
        /\ pass[p].ops[1].op = "delete"
        /\ pass[p].ops[3].op = "create"
        /\ pass[p].ops[1].ts < pass[p].ops[3].ts

(***************************************************************************)
(* C2. Fail-stop in the create phase: when the POST of the Nth create      *)
(* record rejects, the pass has ended; it issued the POSTs of the first N  *)
(* creates and no other call, and the failed record, the creates behind it *)
(* and every update and delete of the snapshot are still in the outbox.    *)
(***************************************************************************)
C2_CreateFailStop ==
    \A p \in Passes :
        RejectedAt(pass[p], "POST") =>
            LET ps == pass[p]
                N == Len(ps.calls)
                cs == CreatesOf(ps.ops)
            IN  /\ ps.pc = "idle"
                /\ ~ps.inflight
                /\ N <= Len(cs)
                /\ \A k \in 1..N : /\ ps.calls[k].method = "POST"
                                   /\ ps.calls[k].rec = cs[k]._id
                /\ \A k \in N..Len(cs) : cs[k] \in outbox
                /\ \A k \in 1..Len(ps.ops) :
                       ps.ops[k].op # "create" => ps.ops[k] \in outbox

\* the POST of the first of two creates rejected, with an update or a delete
\* in the snapshot as well
C2_Witness ==
    \E p \in Passes :
        /\ RejectedAt(pass[p], "POST")
        /\ Len(pass[p].calls) = 1
        /\ Len(CreatesOf(pass[p].ops)) = 2
        /\ Len(pass[p].ops) = 3

(***************************************************************************)
(* C3 as claimed. After the create of clientRef C succeeds with server id  *)
(* S, the identity map returns S for C, the cache holds no task keyed C    *)
(* and a task keyed S that carries the submitted title, description and    *)
(* status, and the record has left the outbox.                             *)
(***************************************************************************)
C3_SubmittedFieldsCached ==
    [][\A p \in Passes :
         (/\ PostBack(p)
          /\ pass'[p].outcome # "aborted"
          /\ AnswerId(LastCall(pass'[p]).res.data) # undefined)
         => LET op == curOp(pass[p])
                S == AnswerId(LastCall(pass'[p]).res.data)
            IN  /\ getMapping(mapping', op.clienteId) = S
                /\ ~\E t \in cache' : t._id = op.clienteId
                /\ \E t \in cache' : /\ t._id = S
                                     /\ t.title = op.data.title
                                     /\ t.description = op.data.description
                                     /\ t.status = op.data.status
                /\ op \notin outbox'
      ]_vars

(***************************************************************************)
(* C3, amended. After the create of clientRef C succeeds with server id S, *)
(* the identity map returns S for C, the cache holds no task keyed C and   *)
(* exactly one task keyed S, which carries the title, description and      *)
(* status of the server's answer as normalized (the placeholder title, the *)
(* empty description, the status Pendiente where the answer has none it    *)
(* knows), and the record has left the outbox.                             *)
(***************************************************************************)
C3_AnswerFieldsCached ==
    [][\A p \in Passes :
         (/\ PostBack(p)
          /\ pass'[p].outcome # "aborted"
          /\ AnswerId(LastCall(pass'[p]).res.data) # undefined)
         => LET op == curOp(pass[p])
                r == resTask(LastCall(pass'[p]).res.data)
                S == AnswerId(LastCall(pass'[p]).res.data)
            IN  /\ S # op.clienteId
                /\ getMapping(mapping', op.clienteId) = S
                /\ ~\E t \in cache' : t._id = op.clienteId
                /\ Cardinality({t \in cache' : t._id = S}) = 1
                /\ \A t \in cache' :
                       t._id = S =>
                         /\ t.title = (IF r.title = undefined THEN NoTitle ELSE r.title)
                         /\ t.description =
                              (IF r.description = undefined THEN "" ELSE r.description)
                         /\ t.status =
                              (IF r.status \in Statuses THEN r.status ELSE "Pendiente")
                /\ op \notin outbox'
      ]_vars

\* a create went through on an answer that has an id, srv-9, and neither
\* title nor description nor a known status: the task keyed srv-9 has the
\* placeholder title, not the submitted one
C3_Witness ==
    \E p \in Passes :
        /\ Len(pass[p].calls) > 0
        /\ LastCall(pass[p]).method = "POST"
        /\ LastCall(pass[p]).res.state = "resolved"
        /\ resTask(LastCall(pass[p]).res.data).title = undefined
        /\ pass[p].outcome # "aborted"
        /\ \E r \in {x \in OpPool : x._id = LastCall(pass[p]).rec} :
               /\ getMapping(mapping, r.clienteId) = "srv-9"
               /\ r \notin outbox
               /\ \E t \in cache : t._id = "srv-9" /\ t.title = NoTitle
               /\ ~\E t \in cache : t._id = r.clienteId

\* pass p stands at an update or a delete that nothing resolves
OrphanAt(p) ==
    /\ pass[p].pc \in {"update", "delete"}
    /\ ~pass[p].inflight
    /\ curOp(pass[p]).clienteId \notin DOMAIN mapping
    /\ pass[p].pc = "delete" => Falsy(curOp(pass[p]).serverId)

(***************************************************************************)
(* C4. Orphan discard: a pass that stands at an update whose clientRef has *)
(* no identity mapping, or at a delete with neither a serverRef nor a      *)
(* mapping for its clientRef, removes that record from the outbox with no  *)
(* remote call, leaves cache and identity map as they are, and goes on     *)
(* with the next record of its schedule.                                   *)
(***************************************************************************)
C4_OrphanDiscard ==
    [][\A p \in Passes :
         (OrphanAt(p) /\ pass'[p] # pass[p])
         => /\ curOp(pass[p]) \in outbox
            /\ outbox' = outbox \ {curOp(pass[p])}
            /\ pass'[p].calls = pass[p].calls
            /\ cache' = cache
            /\ mapping' = mapping
            /\ ContinuesBehind(curOp(pass[p]), pass'[p])
      ]_vars

\* a pass stands at a delete, having discarded an orphaned update of its
\* snapshot without a call
C4_Witness ==
    \E p \in Passes :
        /\ pass[p].pc = "delete"
        /\ \E k \in 1..Len(pass[p].ops) :
               /\ pass[p].ops[k].op = "update"
               /\ pass[p].ops[k].clienteId \notin DOMAIN mapping
               /\ pass[p].ops[k] \notin outbox
               /\ \A j \in 1..Len(pass[p].calls) :
                      pass[p].calls[j].rec # pass[p].ops[k]._id

(***************************************************************************)
(* C5. Protocol violation: when the answer to a create carries the         *)
(* record's own clientRef as its id, the pass ends at that record, aborted;*)
(* identity map, cache and outbox are as before (the record stays queued), *)
(* no completion event is dispatched and no later record is attempted.     *)
(***************************************************************************)
C5_EchoedIdAborts ==
    [][\A p \in Passes :
         (/\ PostBack(p)
          /\ AnswerId(LastCall(pass'[p]).res.data) = curOp(pass[p]).clienteId)
         => /\ mapping' = mapping
            /\ cache' = cache
            /\ outbox' = outbox
            /\ curOp(pass[p]) \in outbox'
            /\ events' = events
            /\ pass'[p].pc = "idle"
            /\ pass'[p].outcome = "aborted"
            /\ pass'[p].calls[Len(pass'[p].calls)].rec = curOp(pass[p])._id
      ]_vars

\* a pass has ended on an answer that echoed the clientRef, with records of
\* its snapshot behind the failed one, all still queued
C5_Witness ==
    \E p \in Passes :
        /\ pass[p].pc = "idle"
        /\ pass[p].outcome = "aborted"
        /\ Len(pass[p].calls) > 0
        /\ LastCall(pass[p]).res.state = "resolved"
        /\ AnswerId(LastCall(pass[p]).res.data) \in ClientRefs
        /\ Len(pass[p].ops) = 3
        /\ Len(pass[p].calls) = 1
        /\ \A k \in 1..3 : pass[p].ops[k] \in outbox
        /\ mapping = << >>

(***************************************************************************)
(* C6 as claimed. When the answer to a create carries no server id at all  *)
(* (neither _id nor id), the pass ends at that record, aborted: no mapping *)
(* is recorded, the cache is unchanged, the record stays in the outbox.    *)
(***************************************************************************)
C6_MissingIdAborts ==
    [][\A p \in Passes :
         (/\ PostBack(p)
          /\ AnswerId(LastCall(pass'[p]).res.data) = undefined)
         => /\ mapping' = mapping
            /\ cache' = cache
            /\ outbox' = outbox
            /\ pass'[p].pc = "idle"
            /\ pass'[p].outcome = "aborted"
      ]_vars

(***************************************************************************)
(* C7. Empty pass: syncNow invoked online on an empty outbox issues no     *)
(* remote call and leaves outbox, identity map and cache as they are; it   *)
(* returns at once, before the completion event, so that the state after   *)
(* any number of such invocations is the state before them.                *)
(***************************************************************************)
C7_EmptyPassNoEffect ==
    [][\A p \in Passes :
         (passNo' # passNo /\ pass'[p] # pass[p] /\ online /\ outbox = {})
         => /\ outbox' = outbox
            /\ mapping' = mapping
            /\ cache' = cache
            /\ events' = events
            /\ pass'[p].calls = << >>
            /\ pass'[p].pc = "idle"
      ]_vars

\* syncNow has run twice, online the second time and neither time with
\* anything to do: the second invocation found the empty outbox the first
\* one had found or left
C7_Witness ==
    \E p \in Passes :
        /\ passNo = 2
        /\ pass[p].outcome = "empty"
        /\ pass[p].read
        /\ outbox = {}
        /\ events = 0

(***************************************************************************)
(* C8. Offline: when navigator.onLine is false as syncNow starts, the pass *)
(* ends at once: the outbox is not read, no remote call is issued, no      *)
(* store is changed and no completion event is dispatched, whatever the    *)
(* outbox holds.                                                           *)
(***************************************************************************)
C8_OfflinePassNoEffect ==
    [][\A p \in Passes :
         (passNo' # passNo /\ pass'[p] # pass[p] /\ ~online)
         => /\ outbox' = outbox
            /\ mapping' = mapping
            /\ cache' = cache
            /\ events' = events
            /\ ~pass'[p].read
            /\ pass'[p].ops = << >>
            /\ pass'[p].calls = << >>
            /\ pass'[p].pc = "idle"
      ]_vars

\* syncNow has ended offline over an outbox of three records
C8_Witness ==
    \E p \in Passes :
        /\ passNo > 0
        /\ pass[p].outcome = "offline"
        /\ ~online
        /\ Cardinality(outbox) = 3

\* the outbox of the scenario of section 8 of the specification, as sorted
ScenarioOps == <<PoolOp(6, 0), PoolOp(1, 1), PoolOp(3, 2)>>

\* pass ps has ended; its snapshot was the scenario, and the server answered
\* its create with srv-9 and rejected none of its calls
ScenarioRun(ps) ==
    /\ ps.pc = "idle"
    /\ ps.ops = ScenarioOps
    /\ "tmp-2" \notin DOMAIN mapping
    /\ Len(ps.calls) > 0
    /\ AnswerId(ps.calls[1].res.data) = "srv-9"
    /\ \A k \in 1..Len(ps.calls) : ps.calls[k].res.state = "resolved"

(***************************************************************************)
(* C9. The scenario: from the outbox Create(tmp-1, title A, ts 1),         *)
(* Update(tmp-1, title A2, ts 2), Delete(tmp-2, ts 0), with no mapping for *)
(* tmp-2, a pass whose create is answered with id srv-9 and whose update   *)
(* is accepted issues exactly one POST, then one PUT on srv-9 and no       *)
(* DELETE; it ends with tmp-1 mapped to srv-9, the cache holding a task    *)
(* srv-9 titled A2 and no task tmp-1, and an empty outbox.                 *)
(***************************************************************************)
C9_Scenario ==
    \A p \in Passes :
        ScenarioRun(pass[p]) =>
            /\ Len(pass[p].calls) = 2
            /\ pass[p].calls[1].method = "POST"
            /\ pass[p].calls[1].rec = ScenarioOps[2]._id
            /\ pass[p].calls[2].method = "PUT"
            /\ pass[p].calls[2].id = "srv-9"
            /\ pass[p].calls[2].rec = ScenarioOps[3]._id
            /\ getMapping(mapping, "tmp-1") = "srv-9"
            /\ \E t \in cache : t._id = "srv-9" /\ t.title = "A2"
            /\ \A t \in cache : t._id = "srv-9" => t.title = "A2"
            /\ ~\E t \in cache : t._id = "tmp-1"
            /\ outbox = {}

\* the scenario has run to its end
C9_Witness ==
    \E p \in Passes :
        /\ ScenarioRun(pass[p])
        /\ pass[p].outcome = "completed"
        /\ ScenarioOps[1].op = "delete" /\ ScenarioOps[1].clienteId = "tmp-2"
        /\ ScenarioOps[2].op = "create" /\ ScenarioOps[2].data.title = "A"
        /\ ScenarioOps[3].op = "update" /\ ScenarioOps[3].data.title = "A2"
        /\ events = 1

CreateWrites == <<"setMapping", "removeTaskLocal", "putTaskLocal", "removePendingOp">>

\* the POST resolves with an id the loop accepts, and the write number
\* failing of the create loop rejects
PostResolvesStoreFails(p) ==
    /\ pass[p].pc = "create"
    /\ pass[p].inflight
    /\ \E data \in CreateAnswers(curOp(pass[p])), failing \in DOMAIN CreateWrites :
       LET op == curOp(pass[p])
           serverTask == normalizeTask(resTask(data))
           serverId == serverTask._id
           got == settled(pass[p], Resolved(data))
       IN  /\ validServerId(serverId, op)
           /\ mapping' = IF failing > 1
                         THEN setMapping(mapping, op.clienteId, serverId)
                         ELSE mapping
           /\ cache' = IF failing > 3
                       THEN putTaskLocal(removeTaskLocal(cache, op.clienteId),
                                         serverTask)
                       ELSE IF failing > 2
                       THEN removeTaskLocal(cache, op.clienteId)
                       ELSE cache
           /\ pass' = [pass EXCEPT ![p] = abort(got)]
    /\ UNCHANGED <<online, outbox, events, passNo>>

\* one caller, one pass at a time, over stores whose writes can fail
NextFaults ==
    \/ Next
    \/ PostResolvesStoreFails("p1")

SpecFaults == Init /\ [][NextFaults]_vars

\* the three effects of the create of op, between two states
MappingRecorded(op) ==
    /\ op.clienteId \in DOMAIN mapping'
    /\ mapping'[op.clienteId] = normalizeTask(resTask(LastCall(pass'["p1"]).res.data))._id
CacheRekeyed(op) ==
    /\ ~\E t \in cache' : t._id = op.clienteId
    /\ \E t \in cache' : t._id = normalizeTask(resTask(LastCall(pass'["p1"]).res.data))._id
RecordRemoved(op) == op \notin outbox'

(***************************************************************************)
(* C11 as claimed. No partial application of a create: when a pass is back *)
(* from the POST of a create record, answered by the server, either the    *)
(* mapping is recorded, the cache entry is re-keyed from the clientRef to  *)
(* the serverRef and the record has left the outbox, or identity map,      *)
(* cache and outbox are what they were and the record is still queued;     *)
(* and so still when one of the store writes behind the POST fails.        *)
(***************************************************************************)
C11_CreateAllOrNothing ==
    [][PostBack("p1")
       => LET op == curOp(pass["p1"])
          IN  \/ MappingRecorded(op) /\ CacheRekeyed(op) /\ RecordRemoved(op)
              \/ /\ mapping' = mapping
                 /\ cache' = cache
                 /\ outbox' = outbox
                 /\ op \in outbox'
      ]_vars

\* record op of the snapshot of ps and the records scheduled behind it
FromOn(op, ps) ==
    LET sch == Schedule(ps.ops)
        k == CHOOSE j \in 1..Len(sch) : sch[j] = op
    IN  {sch[j] : j \in k..Len(sch)}

\* in this step the PUT or DELETE pass p awaited rejects
PutOrDeleteFails(p) ==
    /\ pass[p].pc \in {"update", "delete"}
    /\ Back(p)
    /\ LastCall(pass'[p]).res = Rejected

(***************************************************************************)
(* C12. Fail-stop in the update and delete phases: when the PUT of an      *)
(* update record or the DELETE of a delete record rejects, the pass ends   *)
(* at that record: it issues no further call, the failing record and every *)
(* record scheduled behind it are still in the outbox, and cache, identity *)
(* map and outbox are what they were before the call came back; no         *)
(* completion event is dispatched.                                         *)
(***************************************************************************)
C12_UpdateDeleteFailStop ==
    /\ [][\A p \in Passes :
            PutOrDeleteFails(p)
            => /\ pass'[p].pc = "idle"
               /\ pass'[p].outcome = "aborted"
               /\ Len(pass'[p].calls) = Len(pass[p].calls)
               /\ LastCall(pass'[p]).rec = curOp(pass[p])._id
               /\ FromOn(curOp(pass[p]), pass[p]) \subseteq outbox'
               /\ cache' = cache
               /\ outbox' = outbox
               /\ mapping' = mapping
               /\ events' = events
        ]_vars
    /\ [](\A p \in Passes :
            (RejectedAt(pass[p], "PUT") \/ RejectedAt(pass[p], "DELETE"))
            => pass[p].pc = "idle" /\ ~pass[p].inflight)

\* a pass has ended on the rejected PUT of the first of two updates, with a
\* delete behind them; all three records are still queued
C12_Witness ==
    \E p \in Passes :
        /\ RejectedAt(pass[p], "PUT")
        /\ pass[p].outcome = "aborted"
        /\ Len(UpdatesOf(pass[p].ops)) = 2
        /\ Len(DeletesOf(pass[p].ops)) = 1
        /\ Len(pass[p].calls) = 1
        /\ \A k \in 1..3 : pass[p].ops[k] \in outbox

\* in this step pass p ends, in the way given
Ends(p, outcome) == pass[p].outcome = "running" /\ pass'[p].outcome = outcome

(***************************************************************************)
(* C13. Completion event: the step in which a pass gets through the last   *)
(* record of its last loop, none of its calls having failed, dispatches    *)
(* sync-complete exactly once, and at that point every record of the       *)
(* pass's snapshot has left the outbox; the step in which a pass aborts on *)
(* a failed record dispatches nothing, and no other step dispatches the    *)
(* event.                                                                  *)
(***************************************************************************)
C13_EventOnCompletion ==
    [][/\ \A p \in Passes :
            Ends(p, "completed")
            => /\ events' = events + 1
               /\ \A k \in 1..Len(pass[p].ops) : pass[p].ops[k] \notin outbox'
               /\ \A k \in 1..Len(pass'[p].calls) :
                      pass'[p].calls[k].res.state = "resolved"
       /\ \A p \in Passes : Ends(p, "aborted") => events' = events
       /\ events' # events => \E p \in Passes : Ends(p, "completed")
      ]_vars

\* of two passes the first removed nothing and dispatched nothing, and the
\* second got through a snapshot of three records: one event in all
C13_Witness ==
    \E p \in Passes :
        /\ passNo = 2
        /\ pass[p].outcome = "completed"
        /\ Len(pass[p].ops) = 3
        /\ Len(pass[p].calls) > 0
        /\ outbox = {}
        /\ events = 1

(***************************************************************************)
(* The UI layer (the Dashboard of the same file): the handlers that edit   *)
(* or remove a task of the list and queue what the server did not take.    *)
(* The list the handlers act on is the one loadTasks reads from the cache. *)
(* queue, of ./db, adds a record under a fresh key.                        *)
(***************************************************************************)
\* Date.now() of the handlers: later than every ts of an earlier session
Now == 3

\* the ids a task of the list can have: a clienteId, or an id normalizeTask
\* made of a server's answer
TaskIds == <<"tmp-1", "tmp-2", "srv-8", "srv-9", "undefined">>

\* crypto.randomUUID() of a handler: a key no other record has, one per
\* kind of record and task
randomUUID(kind, taskId) ==
    Len(OpShapes) * Cardinality(Stamps)
    + (IF kind = "update" THEN 0 ELSE Len(TaskIds))
    + (CHOOSE j \in 1..Len(TaskIds) : TaskIds[j] = taskId)

\* queue(record)
queue(ob, r) == ob \cup {r}

\* the record syncTaskToServer queues for task
UpdateOf(task) ==
    PendingOp(randomUUID("update", task._id), "update",
              Coalesce(task.clienteId, ""), undefined, task, Now)

\* the record removeTask queues for task
DeleteOf(task) ==
    PendingOp(randomUUID("delete", task._id), "delete",
              Coalesce(task.clienteId, ""), undefined, NoData, Now)

\* const id = mappingId ?? task._id; the test that queues without a call
\* (an undefined mapping is the only one ?? replaces)
noServerId(task, mp) ==
    LET mappingId == getMapping(mp, Coalesce(task.clienteId, ""))
        id == Coalesce(mappingId, task._id)
    IN  Falsy(mappingId) /\ (Falsy(id) \/ id = "undefined")

\* whether a handler queues its record: at once when the task has no id to
\* call the server with, when offline, and when its own call rejects
mustQueue(task, mp, callFails) ==
    \/ noServerId(task, mp)
    \/ ~navigatorOnLine
    \/ callFails

\* the outbox has room for one more record and none under the key of r
Room(r) ==
    /\ Cardinality(outbox) < MaxOps
    /\ \A s \in outbox : s._id # r._id
    /\ \A p \in Passes : \A k \in 1..Len(pass[p].ops) : pass[p].ops[k]._id # r._id

\* completeTask(task): the task is marked Completada in the cache and
\* syncTaskToServer puts it to the server or queues the update
completeTask(task) ==
    LET updated == [task EXCEPT !.status = "Completada"]
    IN  /\ task \in cache
        /\ task.status # "Completada"
        /\ cache' = putTaskLocal(cache, updated)
        /\ \E callFails \in BOOLEAN :
              IF mustQueue(updated, mapping, callFails)
              THEN Room(UpdateOf(updated))
                   /\ outbox' = queue(outbox, UpdateOf(updated))
              ELSE outbox' = outbox
        /\ UNCHANGED <<online, mapping, pass, events, passNo>>

\* removeTask(taskId): the task leaves the cache and is deleted on the
\* server, or the delete is queued
removeTask(task) ==
    /\ task \in cache
    /\ cache' = removeTaskLocal(cache, task._id)
    /\ \E callFails \in BOOLEAN :
          IF mustQueue(task, mapping, callFails)
          THEN Room(DeleteOf(task))
               /\ outbox' = queue(outbox, DeleteOf(task))
          ELSE outbox' = outbox
    /\ UNCHANGED <<online, mapping, pass, events, passNo>>

\* syncNow, one pass at a time, and the user at the list
NextUI ==
    \/ Next
    \/ \E task \in cache : completeTask(task)
    \/ \E task \in cache : removeTask(task)

\* most records an earlier session left in the outbox the user starts from
MaxLeft == 1

\* the stores as an earlier session left them, the outbox nearly drained
InitUI ==
    /\ Init
    /\ Cardinality(outbox) <= MaxLeft

SpecUI == InitUI /\ [][NextUI]_vars

\* the task a record queued by a handler is about
TaskOf(r) ==
    CHOOSE id \in {TaskIds[j] : j \in 1..Len(TaskIds)} :
        r._id \in {randomUUID("update", id), randomUUID("delete", id)}

\* r was queued by a handler of the UI in this session
QueuedByUI(r) == r.ts = Now

\* the ids the server gave to entities it holds
OnServer(id) == id \in {"srv-8", "srv-9"}

(***************************************************************************)
(* C14 as claimed. An update or delete record queued by the UI is removed  *)
(* from the outbox without a remote call only when its task was never      *)
(* created on the server: no queued update or delete of a task the server  *)
(* holds, a task fetched from the server that has no clientRef included,   *)
(* is dropped without being submitted.                                     *)
(***************************************************************************)
C14_DropOnlyUncreated ==
    [][\A p \in Passes :
         (/\ pass[p].pc \in {"update", "delete"}
          /\ ~pass[p].inflight
          /\ pass'[p] # pass[p]
          /\ pass'[p].calls = pass[p].calls
          /\ QueuedByUI(curOp(pass[p])))
         => ~OnServer(TaskOf(curOp(pass[p])))
      ]_vars

(***************************************************************************)
(* Passes without end. The caller may trigger syncNow again and again;    *)
(* the invocations behind the MaxPasses-th are not counted. A pass that    *)
(* has started runs on whenever it can (weak fairness of the steps of      *)
(* syncNow); a remote call that is issued again and again is taken by the  *)
(* server at some time (strong fairness of the three resolutions, of POST  *)
(* with an id the create loop accepts). When syncNow is invoked is up to   *)
(* its caller.                                                             *)
(***************************************************************************)
StartPassAgain(p) ==
    /\ passNo = MaxPasses
    /\ passNo' = passNo
    /\ enter(p)

\* the POST resolves and its answer is accepted
PostAccepted(p) == PostResolves(p) /\ pass'[p].outcome # "aborted"

NextLive ==
    \/ Next
    \/ StartPassAgain("p1")

Fairness ==
    /\ WF_vars(IssuePost("p1") \/ IssuePut("p1") \/ IssueDelete("p1"))
    /\ WF_vars(UpdateOrphan("p1") \/ DeleteOrphan("p1"))
    /\ SF_vars(PostAccepted("p1"))
    /\ SF_vars(PutResolves("p1"))
    /\ SF_vars(DeleteResolves("p1"))

\* most records in the outbox that is to drain
MaxDrain == 2

\* the stores as an earlier session left them, with up to MaxDrain records
InitLive ==
    /\ Init
    /\ Cardinality(outbox) <= MaxDrain

SpecLive == InitLive /\ [][NextLive]_vars /\ Fairness

\* the caller invokes syncNow again and again as long as records are queued:
\* time and again a pass is under way or the outbox is empty
InvokedAgainAndAgain == []<>(pass["p1"].pc # "idle" \/ outbox = {})

\* record r leaves the outbox in this step
Leaves(r) == r \in outbox /\ r \notin outbox'

\* in this step the remote call that pass p awaited for r resolves
TakenBy(p, r) ==
    /\ Back(p)
    /\ curOp(pass[p]) = r
    /\ LastCall(pass'[p]).res.state = "resolved"

(***************************************************************************)
(* C15. Retry and drain. A record leaves the outbox only when its remote   *)
(* call resolves or when it is discarded as an orphan; a record whose call *)
(* failed stays, and a pass that comes to stand at a record whose target   *)
(* resolves submits it, whatever happened to it in earlier passes. With    *)
(* syncNow invoked again and again, from some time on online, and with     *)
(* every remote call that is issued again and again succeeding at some     *)
(* time (no record being queued meanwhile), the outbox becomes empty and   *)
(* stays so.                                                               *)
(***************************************************************************)
C15_RetryAndDrain ==
    /\ [][\A p \in Passes :
            /\ \A r \in outbox :
                  (Leaves(r) /\ pass'[p] # pass[p])
                  => TakenBy(p, r) \/ (OrphanAt(p) /\ curOp(pass[p]) = r)
            /\ (/\ pass[p].pc # "idle"
                /\ ~pass[p].inflight
                /\ ~OrphanAt(p)
                /\ pass'[p] # pass[p])
               => /\ pass'[p].inflight
                  /\ Len(pass'[p].calls) = Len(pass[p].calls) + 1
                  /\ LastCall(pass'[p]).rec = curOp(pass[p])._id
                  /\ LastCall(pass'[p]).res = Pending
        ]_vars
    /\ [][outbox' \subseteq outbox]_vars
    /\ (<>[]online /\ InvokedAgainAndAgain) => <>[](outbox = {})

\* a second pass awaits the POST of the create of an outbox of two records,
\* a create and an update, both of which the first pass left queued
C15_Witness ==
    \E p \in Passes :
        /\ passNo = 2
        /\ pass[p].inflight
        /\ pass[p].pc = "create"
        /\ Len(pass[p].calls) = 1
        /\ Len(pass[p].ops) = 2
        /\ Len(UpdatesOf(pass[p].ops)) = 1
        /\ \A k \in 1..2 : pass[p].ops[k] \in outbox

\* the remote calls of the reconciler that are in flight
InFlight ==
    {<<p, k>> \in Passes \X (1..MaxOps + 1) :
        k <= Len(pass[p].calls) /\ pass[p].calls[k].res = Pending}

Unusable(p) ==
    /\ PostBack(p)
    /\ ~validServerId(normalizeTask(resTask(LastCall(pass'[p]).res.data))._id,
                      curOp(pass[p]))

\* in this step the remote call pass p awaited rejects
CallRejects(p) == Back(p) /\ LastCall(pass'[p]).res = Rejected

settlement(ps) ==
    IF ps.outcome \in {"none", "running"}
    THEN [state |-> "pending", value |-> undefined]
    ELSE [state |-> "fulfilled", value |-> undefined]

(***************************************************************************)
(* C18 as claimed. A transport or server error or a protocol violation met *)
(* during a pass is propagated to the caller of syncNow: the pass that     *)
(* aborted ends with an error, which the caller can tell from the outcome  *)
(* of a pass that completed.                                               *)
(***************************************************************************)
C18_ErrorPropagated ==
    \A p \in Passes :
        pass[p].outcome = "aborted"
        => /\ settlement(pass[p]).state = "rejected"
           /\ settlement(pass[p]) # settlement([pass[p] EXCEPT !.outcome = "completed"])

\* the place of the record under key id in the sequence s of records
PlaceOf(s, id) == CHOOSE j \in 1..Len(s) : s[j]._id = id

\* the records of the snapshot of ps in the order the store returned them
Returned(ps) == getOutbox({ps.ops[k] : k \in 1..Len(ps.ops)})

\* the records of one kind are taken in ascending ts, and those of equal ts
\* in the order of the sequence store
InTsOrder(K, store) ==
    \A j, k \in 1..Len(K) :
        j < k => \/ K[j].ts < K[k].ts
                 \/ /\ K[j].ts = K[k].ts
                    /\ PlaceOf(store, K[j]._id) < PlaceOf(store, K[k]._id)

(***************************************************************************)
(* C19. Within each of the three phases a pass takes the records of the    *)
(* phase in ascending ts, whatever the order in which the store returned   *)
(* them, and records of one kind and equal ts in the order in which the    *)
(* store returned them: the sequence each loop runs over is so ordered,    *)
(* the pass stands at its records one after the other, and the calls of    *)
(* one method are issued in that order.                                    *)
(***************************************************************************)
C19_TsOrderWithinPhase ==
    \A p \in Passes :
        /\ \A ph \in {"create", "update", "delete"} :
              InTsOrder(filterOp(pass[p].ops, ph), Returned(pass[p]))
        /\ \A a, b \in 1..Len(pass[p].calls) :
              (a < b /\ pass[p].calls[a].method = pass[p].calls[b].method)
              => PlaceOf(pass[p].ops, pass[p].calls[a].rec)
                   < PlaceOf(pass[p].ops, pass[p].calls[b].rec)
        /\ pass[p].pc # "idle"
           => /\ pass[p].i \in 1..Len(filterOp(pass[p].ops, pass[p].pc))
              /\ \A k \in 1..Len(pass[p].calls) :
                    Rank(pass[p].calls[k].method) = PhaseIdx(pass[p].pc)
                    => PlaceOf(pass[p].ops, pass[p].calls[k].rec)
                         <= PlaceOf(pass[p].ops, curOp(pass[p])._id)

\* a pass stands at the third of three updates: the first two have the same
\* ts and were taken in the order of the store, the third has a later ts
\* and came first from the store; the pass has put the second
C19_Witness ==
    \E p \in Passes :
        LET K == UpdatesOf(pass[p].ops)
            store == Returned(pass[p])
        IN  /\ pass[p].pc = "update"
            /\ pass[p].i = 3
            /\ Len(K) = 3
            /\ K[1].ts = K[2].ts
            /\ PlaceOf(store, K[1]._id) < PlaceOf(store, K[2]._id)
            /\ K[2].ts < K[3].ts
            /\ PlaceOf(store, K[3]._id) = 1
            /\ Len(pass[p].calls) = 1
            /\ pass[p].calls[1].rec = K[2]._id

(***************************************************************************)
(* A delete that names its target twice. A pending operation can carry a   *)
(* serverId next to its clienteId (the delete loop reads both); the outbox *)
(* of the initial states below holds one such record, whose serverId is    *)
(* not the id its clienteId is mapped to.                                  *)
(***************************************************************************)
BothRefs ==
    PendingOp(Len(OpShapes) * Cardinality(Stamps) + 2 * Len(TaskIds) + 1,
              "delete", "tmp-2", "srv-7", NoData, 1)

InitRefs ==
    /\ online \in BOOLEAN
    /\ \E ob \in InitOutboxes :
          /\ Cardinality(ob) < MaxOps
          /\ outbox = ob \cup {BothRefs}
          /\ mapping \in InitMappings(ob)
          /\ cache = InitCache(ob, mapping)
                       \cup {Task("srv-7", "C", "", "Pendiente", undefined)}
    /\ pass = [p \in Passes |-> NotStarted]
    /\ events = 0
    /\ passNo = 0

SpecRefs == InitRefs /\ [][Next]_vars

\* the record of the snapshot of ps that call c is for
RecordOf(ps, c) == ps.ops[PlaceOf(ps.ops, c.rec)]

(***************************************************************************)
(* C20. Delete target resolution: the DELETE of a record that carries a    *)
(* serverRef is issued for that serverRef, whatever the identity map holds *)
(* for the record's clientRef, and the task removed from the cache is the  *)
(* one of that id; the DELETE of a record without serverRef is issued for  *)
(* the id the identity map holds for its clientRef, which is then not      *)
(* empty.                                                                  *)
(***************************************************************************)
C20_DeleteTargetResolution ==
    \A p \in Passes :
        \A k \in 1..Len(pass[p].calls) :
            pass[p].calls[k].method = "DELETE"
            => LET r == RecordOf(pass[p], pass[p].calls[k])
               IN  /\ ~Falsy(r.serverId) => pass[p].calls[k].id = r.serverId
                   /\ Falsy(r.serverId)
                      => /\ ~Falsy(r.clienteId)
                         /\ pass[p].calls[k].id = getMapping(mapping, r.clienteId)
                   /\ pass[p].calls[k].res.state = "resolved"
                      => ~\E t \in cache : t._id = pass[p].calls[k].id

\* the delete that carries srv-7 for a clientRef mapped to srv-8 has been
\* called for srv-7 and has resolved: task srv-7 has left the cache, task
\* srv-8 has not
C20_Witness ==
    \E p \in Passes :
        /\ getMapping(mapping, BothRefs.clienteId) = "srv-8"
        /\ Len(pass[p].calls) > 0
        /\ LastCall(pass[p]).rec = BothRefs._id
        /\ LastCall(pass[p]).id = "srv-7"
        /\ LastCall(pass[p]).res.state = "resolved"
        /\ \E t \in cache : t._id = "srv-8"
        /\ ~\E t \in cache : t._id = "srv-7"

\* in this step the PUT or DELETE that pass p awaited resolves
Taken(p, ph) ==
    /\ pass[p].pc = ph
    /\ Back(p)
    /\ LastCall(pass'[p]).res.state = "resolved"

\* the tasks of cache ch under key id
Keyed(ch, id) == {t \in ch : t._id = id}

(***************************************************************************)
(* C21. A successful update: for an update record whose clientRef is       *)
(* mapped to S, the PUT is issued for S; when it resolves, the cache holds *)
(* under S exactly the record's payload re-keyed to S, every other cache   *)
(* entry is what it was (none appears under the clientRef), the record     *)
(* has left the outbox and nothing else has, and the identity map is       *)
(* unchanged.                                                              *)
(***************************************************************************)
C21_UpdateEffects ==
    [][\A p \in Passes :
         Taken(p, "update")
         => LET op == curOp(pass[p])
                S == getMapping(mapping, op.clienteId)
            IN  /\ ~Falsy(S)
                /\ LastCall(pass[p]).method = "PUT"
                /\ LastCall(pass[p]).id = S
                /\ LastCall(pass[p]).rec = op._id
                /\ Keyed(cache', S) = {[op.data EXCEPT !._id = S]}
                /\ \A id \in {t._id : t \in cache \cup cache'} \ {S} :
                       Keyed(cache', id) = Keyed(cache, id)
                /\ Keyed(cache', op.clienteId) = Keyed(cache, op.clienteId)
                /\ outbox' = outbox \ {op}
                /\ op \in outbox
                /\ mapping' = mapping
      ]_vars

\* the update of tmp-2, mapped to srv-8, has been put: the cache holds the
\* edited task under srv-8 and nothing under tmp-2
C21_Witness ==
    \E p \in Passes :
        /\ Len(pass[p].calls) > 0
        /\ LastCall(pass[p]).method = "PUT"
        /\ LastCall(pass[p]).id = "srv-8"
        /\ LastCall(pass[p]).res.state = "resolved"
        /\ getMapping(mapping, "tmp-2") = "srv-8"
        /\ Keyed(cache, "srv-8") = {Task("srv-8", "B2", "d", "Pendiente", "tmp-2")}
        /\ Keyed(cache, "tmp-2") = {}

(***************************************************************************)
(* C22. A successful delete: for a delete record that resolves to S, the   *)
(* DELETE is issued for S; when it resolves, the cache has lost the entry  *)
(* under S, if it had one, and holds every other entry as before, the      *)
(* record has left the outbox and nothing else has, and the identity map   *)
(* is unchanged.                                                           *)
(***************************************************************************)
C22_DeleteEffects ==
    [][\A p \in Passes :
         Taken(p, "delete")
         => LET op == curOp(pass[p])
                S == deleteTarget(op, mapping)
            IN  /\ ~Falsy(S)
                /\ LastCall(pass[p]).method = "DELETE"
                /\ LastCall(pass[p]).id = S
                /\ LastCall(pass[p]).rec = op._id
                /\ cache' = cache \ Keyed(cache, S)
                /\ outbox' = outbox \ {op}
                /\ op \in outbox
                /\ mapping' = mapping
      ]_vars

\* the delete queued for srv-8 has resolved: the task srv-8, which no other
\* record of the pass touched, has left the cache, another task is still
\* there, and tmp-2 is still mapped to srv-8
C22_Witness ==
    \E p \in Passes :
        /\ passNo = 1
        /\ Len(pass[p].calls) > 0
        /\ LastCall(pass[p]).method = "DELETE"
        /\ LastCall(pass[p]).id = "srv-8"
        /\ LastCall(pass[p]).res.state = "resolved"
        /\ \A k \in 1..Len(pass[p].ops) : pass[p].ops[k].clienteId # "tmp-2"
        /\ getMapping(mapping, "tmp-2") = "srv-8"
        /\ Keyed(cache, "srv-8") = {}
        /\ cache # {}

(***************************************************************************)
(* Remote calls that settle. A pass that has started runs on whenever it   *)
(* can, and a remote call it awaits resolves or rejects at some time       *)
(* (weak fairness of the two fates of each call taken together); which of  *)
(* the two is up to the server and the network.                            *)
(***************************************************************************)
Settling ==
    /\ WF_vars(IssuePost("p1") \/ IssuePut("p1") \/ IssueDelete("p1"))
    /\ WF_vars(UpdateOrphan("p1") \/ DeleteOrphan("p1"))
    /\ WF_vars(PostResolves("p1") \/ PostRejects("p1"))
    /\ WF_vars(PutResolves("p1") \/ PutRejects("p1"))
    /\ WF_vars(DeleteResolves("p1") \/ DeleteRejects("p1"))

SpecSettle == InitLive /\ [][Next]_vars /\ Settling

\* the call of ps under index k failed: it rejected, or it is a POST whose
\* answer carries no id the create loop accepts
FailedCall(ps, k) ==
    \/ ps.calls[k].res = Rejected
    \/ /\ ps.calls[k].method = "POST"
       /\ ps.calls[k].res.state = "resolved"
       /\ ~validServerId(normalizeTask(resTask(ps.calls[k].res.data))._id,
                         RecordOf(ps, ps.calls[k]))

(***************************************************************************)
(* C23. Termination: with remote calls that resolve or reject at some      *)
(* time, a pass that has started ends. It issues at most one remote call   *)
(* per record of its snapshot and none for anything else; when it has      *)
(* ended, either it went through its whole snapshot (every record was      *)
(* called for with success or discarded as an orphan, and has left the     *)
(* outbox) or it stopped at its first failure, which is its last call.     *)
(***************************************************************************)
C23_PassTerminates ==
    /\ [](\A p \in Passes :
            LET ps == pass[p]
            IN  /\ \A a, b \in 1..Len(ps.calls) :
                      ps.calls[a].rec = ps.calls[b].rec => a = b
                /\ \A a \in 1..Len(ps.calls) :
                      \E k \in 1..Len(ps.ops) : ps.ops[k]._id = ps.calls[a].rec
                /\ \A a \in 1..Len(ps.calls) - 1 : ~FailedCall(ps, a)
                /\ ps.outcome = "completed"
                   => /\ \A a \in 1..Len(ps.calls) :
                            ps.calls[a].res.state = "resolved" /\ ~FailedCall(ps, a)
                      /\ \A k \in 1..Len(ps.ops) : ps.ops[k] \notin outbox
                /\ ps.outcome = "aborted"
                   => Len(ps.calls) > 0 /\ FailedCall(ps, Len(ps.calls)))
    /\ (pass["p1"].pc # "idle") ~> (pass["p1"].pc = "idle")

\* a pass over two records has ended at its first call, which rejected:
\* the second record, whose target resolves, was not tried and is queued
C23_Witness ==
    \E p \in Passes :
        /\ pass[p].pc = "idle"
        /\ pass[p].outcome = "aborted"
        /\ Len(pass[p].ops) = 2
        /\ Len(pass[p].calls) = 1
        /\ pass[p].calls[1].res = Rejected
        /\ \E k \in 1..2 : /\ pass[p].ops[k] \in outbox
                           /\ pass[p].calls[1].rec # pass[p].ops[k]._id
                           /\ ~Falsy(deleteTarget(pass[p].ops[k], mapping))

(***************************************************************************)
(* Overlapping invocations. Nothing in syncNow keeps a caller from         *)
(* invoking it while an earlier invocation awaits a remote call: the       *)
(* passes p1 and p2 then run interleaved at their awaits, each with its    *)
(* own snapshot, over the same stores.                                     *)
(***************************************************************************)
NextOverlap ==
    \/ \E p \in Passes :
          \/ StartPass(p)
          \/ IssuePost(p)
          \/ PostResolves(p)
          \/ PostRejects(p)
          \/ UpdateOrphan(p)
          \/ IssuePut(p)
          \/ PutResolves(p)
          \/ PutRejects(p)
          \/ DeleteOrphan(p)
          \/ IssueDelete(p)
          \/ DeleteResolves(p)
          \/ DeleteRejects(p)
    \/ Connectivity

\* most records in the outbox two invocations race over
MaxRace == 1

\* the stores as an earlier session left them, with up to MaxRace records
InitRace ==
    /\ Init
    /\ Cardinality(outbox) <= MaxRace

SpecOverlap == InitRace /\ [][NextOverlap]_vars

\* the POSTs of pass ps that the server answered with an id the create loop
\* accepted: each of them made an entity on the server
Accepted(ps) ==
    {k \in 1..Len(ps.calls) :
        /\ ps.calls[k].method = "POST"
        /\ ps.calls[k].res.state = "resolved"
        /\ ~FailedCall(ps, k)}

(***************************************************************************)
(* C24. syncNow has no guard against overlapping invocations. While the    *)
(* first pass awaits a remote call, a second one can be started, and a     *)
(* pass started online, whatever the other pass is doing, takes as its     *)
(* snapshot the outbox as it is then, sorted; a pass that stands at a      *)
(* create record of its snapshot submits it, whether or not the other pass *)
(* has submitted it or has removed it from the outbox; and every accepted  *)
(* answer writes the identity mapping of the clientRef, over the one that  *)
(* is there. So a create record in both snapshots can be submitted by both *)
(* passes: two server entities for one clientRef and a second write of its *)
(* mapping.                                                                *)
(***************************************************************************)
C24_OverlappingPasses ==
    /\ [](\A p \in Passes :
            /\ (/\ pass[p].pc = "idle"
                /\ passNo = 1
                /\ \E q \in Passes : pass[q].inflight) => ENABLED StartPass(p)
            /\ (pass[p].pc = "create" /\ ~pass[p].inflight) => ENABLED IssuePost(p))
    /\ [][\A p \in Passes :
            /\ (pass[p].pc = "idle" /\ pass'[p] # pass[p] /\ online)
               => pass'[p].ops = sortByTs(getOutbox(outbox))
            /\ (PostBack(p) /\ pass'[p].outcome # "aborted")
               => mapping' = setMapping(mapping, curOp(pass[p]).clienteId,
                                        normalizeTask(resTask(
                                            LastCall(pass'[p]).res.data))._id)
      ]_vars

\* both passes submitted the create record of tmp-1 and both POSTs were
\* accepted, with the ids srv-9 and srv-8: the server has two entities for
\* tmp-1, the cache holds both, and the mapping of tmp-1, written twice, is
\* the one of the POST that resolved last
C24_Witness ==
    \E r \in OpPool :
        /\ r.op = "create"
        /\ r.clienteId = "tmp-1"
        /\ \E a \in Accepted(pass["p1"]) :
              /\ pass["p1"].calls[a].rec = r._id
              /\ AnswerId(pass["p1"].calls[a].res.data) = "srv-9"
        /\ \E b \in Accepted(pass["p2"]) :
              /\ pass["p2"].calls[b].rec = r._id
              /\ AnswerId(pass["p2"].calls[b].res.data) = "srv-8"
        /\ getMapping(mapping, "tmp-1") = "srv-8"
        /\ Keyed(cache, "srv-9") # {}
        /\ Keyed(cache, "srv-8") # {}
        /\ r \notin outbox

(***************************************************************************)
(* The user adds a task while the reconciler runs.                         *)
(***************************************************************************)
\* crypto.randomUUID() of addTask: the clienteId of the new task, and the
\* key of its create record, which no other record has
NewRef == "tmp-3"
NewKey == Len(OpShapes) * Cardinality(Stamps) + 2 * Len(TaskIds) + 2

\* the task addTask makes of the form
NewTask == Task(NewRef, "C", "", "Pendiente", NewRef)

\* the record addTask queues
CreateOf(task) == PendingOp(NewKey, "create", task.clienteId, undefined, task, Now)

\* addTask(e): the new task is put into the cache; online it is posted and,
\* answered, mapped and re-keyed in the cache; offline, or when the POST
\* rejects, its create record is queued
addTask ==
    /\ ~\E t \in cache : t._id = NewRef
    /\ NewRef \notin DOMAIN mapping
    /\ Room(CreateOf(NewTask))
    /\ \E callFails \in BOOLEAN :
          IF navigatorOnLine /\ ~callFails
          THEN \E data \in CreateAnswers(CreateOf(NewTask)) :
                  LET serverTask == normalizeTask(resTask(data))
                  IN  /\ mapping' = setMapping(mapping, NewRef, serverTask._id)
                      /\ cache' = putTaskLocal(
                                      removeTaskLocal(putTaskLocal(cache, NewTask),
                                                      NewRef),
                                      serverTask)
                      /\ outbox' = outbox
          ELSE /\ cache' = putTaskLocal(cache, NewTask)
               /\ outbox' = queue(outbox, CreateOf(NewTask))
               /\ mapping' = mapping
    /\ UNCHANGED <<online, pass, events, passNo>>

\* syncNow, one pass at a time, and the user at the form
NextEnqueue ==
    \/ Next
    \/ addTask

SpecEnqueue == InitLive /\ [][NextEnqueue]_vars

\* the records of the snapshot of a pass
SnapshotOf(ps) == {ps.ops[k] : k \in 1..Len(ps.ops)}

(***************************************************************************)
(* C25. Snapshot isolation of a pass. A pass under way keeps the snapshot  *)
(* it took at its start, and a record the UI enqueues leaves pass and      *)
(* snapshot as they are; every remote call of a pass is for a record of    *)
(* its snapshot; a step of a pass removes no record from the outbox that   *)
(* is not in its snapshot, so that a record enqueued while the pass is     *)
(* suspended on a remote call is still in the outbox when the pass ends;   *)
(* and the next pass, started online, has every record of the outbox in    *)
(* its snapshot.                                                           *)
(***************************************************************************)
C25_SnapshotIsolation ==
    /\ [][\A p \in Passes :
            /\ pass[p].pc # "idle" => pass'[p].ops = pass[p].ops
            /\ outbox' \ outbox # {} => pass' = pass
            /\ \A r \in outbox \ SnapshotOf(pass[p]) :
                  pass[p].pc # "idle" => r \in outbox'
            /\ \A r \in outbox \ outbox' :
                  \E q \in Passes : /\ r \in SnapshotOf(pass[q])
                                    /\ pass[q].pc # "idle"
                                    /\ pass'[q] # pass[q]
            /\ (pass[p].pc = "idle" /\ pass'[p] # pass[p] /\ online)
               => outbox \subseteq SnapshotOf(pass'[p])
      ]_vars
    /\ [](\A p \in Passes : \A k \in 1..Len(pass[p].calls) :
            \E r \in SnapshotOf(pass[p]) : r._id = pass[p].calls[k].rec)

\* a pass over two records is suspended on its second remote call, the
\* first one resolved and its record removed; the create record the user
\* queued in the meantime is in the outbox and not in the snapshot
C25_Witness ==
    \E p \in Passes :
        /\ passNo = 1
        /\ pass[p].inflight
        /\ Len(pass[p].ops) = 2
        /\ Len(pass[p].calls) = 2
        /\ pass[p].calls[1].res.state = "resolved"
        /\ pass[p].ops[1] \notin outbox
        /\ CreateOf(NewTask) \in outbox
        /\ CreateOf(NewTask) \notin SnapshotOf(pass[p])
        /\ \E t \in cache : t._id = NewRef

\* the records of a snapshot that update or delete the task whose create
\* record c is in the same snapshot
FollowersOf(ps, c) ==
    {u \in SnapshotOf(ps) : u.op \in {"update", "delete"} /\ u.clienteId = c.clienteId}

\* the calls of pass ps for record r
CallsFor(ps, r) == {k \in 1..Len(ps.calls) : ps.calls[k].rec = r._id}

(***************************************************************************)
(* C26. When the snapshot of a pass holds the create record of clientRef C *)
(* and update or delete records for C, the pass discards none of these as  *)
(* an orphan. Either the create succeeds, and then every call for such a   *)
(* record goes to the server id the create was answered with, and the      *)
(* record leaves the outbox only when that call has resolved; or the       *)
(* create fails, and then no call is made for them and they stay in the    *)
(* outbox.                                                                 *)
(***************************************************************************)
C26_NoOrphanBehindCreate ==
    /\ [][\A p \in Passes :
            (OrphanAt(p) /\ pass'[p] # pass[p])
            => ~\E c \in SnapshotOf(pass[p]) :
                   c.op = "create" /\ curOp(pass[p]) \in FollowersOf(pass[p], c)
      ]_vars
    /\ [](\A p \in Passes : \A c \in SnapshotOf(pass[p]) :
            c.op = "create" =>
              \A u \in FollowersOf(pass[p], c) :
                LET ps == pass[p]
                IN  /\ \A b \in CallsFor(ps, u) :
                          \E a \in CallsFor(ps, c) :
                             /\ a \in Accepted(ps)
                             /\ ps.calls[b].id =
                                  normalizeTask(resTask(ps.calls[a].res.data))._id
                    /\ u \notin outbox
                       => \E b \in CallsFor(ps, u) : ps.calls[b].res.state = "resolved"
                    /\ (\E a \in CallsFor(ps, c) : FailedCall(ps, a))
                       => u \in outbox /\ CallsFor(ps, u) = {})

\* the snapshot held the create, an update and the delete of tmp-1; the
\* create was answered with srv-9, the PUT and the DELETE went to srv-9 and
\* resolved, and the outbox is empty
C26_Witness ==
    \E p \in Passes :
        /\ Len(pass[p].ops) = 3
        /\ \A k \in 1..3 : pass[p].ops[k].clienteId = "tmp-1"
        /\ Len(pass[p].calls) = 3
        /\ pass[p].calls[1].method = "POST"
        /\ AnswerId(pass[p].calls[1].res.data) = "srv-9"
        /\ pass[p].calls[2].method = "PUT"
        /\ pass[p].calls[2].id = "srv-9"
        /\ pass[p].calls[3].method = "DELETE"
        /\ pass[p].calls[3].id = "srv-9"
        /\ pass[p].calls[3].res.state = "resolved"
        /\ pass[p].outcome = "completed"
        /\ outbox = {}

\* the delete records without serverId of a snapshot for the task whose
\* create record c is in the same snapshot
DeletesOfCreated(ps, c) ==
    {d \in FollowersOf(ps, c) : d.op = "delete" /\ Falsy(d.serverId)}

\* the server id the create record c was answered with in pass ps
CreatedAs(ps, c) ==
    LET a == CHOOSE k \in CallsFor(ps, c) : TRUE
    IN  normalizeTask(resTask(ps.calls[a].res.data))._id

(***************************************************************************)
(* C27. A task created offline and deleted offline: the snapshot holds     *)
(* Create(C) and a Delete for C without serverRef. When the pass has       *)
(* completed, the server entity was created and then deleted (an accepted  *)
(* POST for the create, answered with S, and behind it a DELETE of S that  *)
(* resolved) and the cache holds no task keyed C and none keyed S. When    *)
(* the pass has aborted behind the accepted create and before a DELETE of  *)
(* S resolved, the cache holds the task keyed S, which the user had        *)
(* deleted, and the delete record is still queued.                         *)
(***************************************************************************)
C27_CreatedAndDeletedOffline ==
    \A p \in Passes : \A c \in SnapshotOf(pass[p]) :
        (c.op = "create" /\ DeletesOfCreated(pass[p], c) # {}) =>
          LET ps == pass[p]
              ds == DeletesOfCreated(ps, c)
          IN  /\ ps.outcome = "completed"
                 => /\ \E a \in CallsFor(ps, c) : a \in Accepted(ps)
                    /\ \A d \in ds : \E a \in CallsFor(ps, c), b \in CallsFor(ps, d) :
                          /\ a < b
                          /\ ps.calls[b].method = "DELETE"
                          /\ ps.calls[b].id = CreatedAs(ps, c)
                          /\ ps.calls[b].res.state = "resolved"
                    /\ Keyed(cache, c.clienteId) = {}
                    /\ Keyed(cache, CreatedAs(ps, c)) = {}
              /\ (/\ ps.outcome = "aborted"
                  /\ \E a \in CallsFor(ps, c) : a \in Accepted(ps)
                  /\ \A b \in 1..Len(ps.calls) :
                        (ps.calls[b].method = "DELETE"
                         /\ ps.calls[b].id = CreatedAs(ps, c))
                        => ps.calls[b].res.state # "resolved")
                 => /\ Keyed(cache, CreatedAs(ps, c)) # {}
                    /\ Keyed(cache, c.clienteId) = {}
                    /\ ds \subseteq outbox

\* the create of tmp-1 was answered with srv-9 and the DELETE of srv-9
\* rejected: the pass has aborted, the delete record is queued, and the
\* cache, which held no task of tmp-1 when the pass began, holds the task
\* keyed srv-9
C27_Witness ==
    \E p \in Passes :
        /\ passNo = 1
        /\ pass[p].outcome = "aborted"
        /\ Len(pass[p].ops) = 2
        /\ Len(pass[p].calls) = 2
        /\ pass[p].calls[1].method = "POST"
        /\ AnswerId(pass[p].calls[1].res.data) = "srv-9"
        /\ pass[p].calls[2].method = "DELETE"
        /\ pass[p].calls[2].id = "srv-9"
        /\ pass[p].calls[2].res = Rejected
        /\ \A k \in 1..2 : pass[p].ops[k].clienteId = "tmp-1"
        /\ Keyed(cache, "srv-9") # {}
        /\ Cardinality(outbox) = 1

\* in this step the remote call of pass p for its current record succeeds:
\* it resolves, with an id the create loop accepts if it is a POST
Succeeds(p) ==
    /\ Back(p)
    /\ LastCall(pass'[p]).res.state = "resolved"
    /\ pass'[p].outcome # "aborted"

\* in this step pass p issues the remote call for its current record
Submits(p) == ~pass[p].inflight /\ pass'[p].inflight

(***************************************************************************)
(* C28. With passes run one at a time and store writes that do not fail,   *)
(* the reconciler adds no record to the outbox and changes none; a record  *)
(* leaves the outbox in the step, and only in the step, in which the       *)
(* remote call a pass made for it succeeds or in which a pass discards it  *)
(* as an orphan; and a pass submits a record only while it is in the       *)
(* outbox. Hence a record whose call succeeded is gone from the outbox in  *)
(* the same pass and no later pass submits it again.                       *)
(***************************************************************************)
C28_RemovedIffDone ==
    [][/\ outbox' \subseteq outbox
       /\ \A r \in outbox \ outbox' :
             \E p \in Passes :
                /\ pass[p].pc # "idle"
                /\ curOp(pass[p]) = r
                /\ Succeeds(p) \/ (OrphanAt(p) /\ pass'[p] # pass[p])
       /\ \A p \in Passes :
             /\ (Succeeds(p) \/ (OrphanAt(p) /\ pass'[p] # pass[p]))
                => /\ curOp(pass[p]) \in outbox
                   /\ outbox' = outbox \ {curOp(pass[p])}
             /\ Submits(p)
                => /\ curOp(pass[p]) \in outbox
                   /\ LastCall(pass'[p]).rec = curOp(pass[p])._id
                   /\ outbox' = outbox
      ]_vars

\* the second pass: its snapshot was the update of tmp-1 alone, put to
\* srv-9, the id an earlier pass recorded for tmp-1 when its create
\* succeeded; that create record was gone when the second pass began
C28_Witness ==
    \E p \in Passes :
        /\ passNo = 2
        /\ getMapping(mapping, "tmp-1") = "srv-9"
        /\ Len(pass[p].ops) = 1
        /\ pass[p].ops[1].op = "update"
        /\ pass[p].ops[1].clienteId = "tmp-1"
        /\ Len(pass[p].calls) = 1
        /\ pass[p].calls[1].method = "PUT"
        /\ pass[p].calls[1].id = "srv-9"
        /\ pass[p].calls[1].res.state = "resolved"
        /\ outbox = {}

====
